---- MODULE Spec2Model ----
(***************************************************************************)
(* A model of the PyFFTPlayground package of EleFourier: the Timer         *)
(* stopwatch, the DFT plan factories, the parallel driver PyFFTParallel    *)
(* with its worker dummy_psf_broadband, and the tutorial scripts.          *)
(*                                                                         *)
(* Time is a monotonic integer clock (time.perf_counter()); Timer values   *)
(* are integers in the code's unit (milliseconds = seconds * 1000).        *)
(* Python's None is the empty tuple <<>> and a present value v is <<v>>.   *)
(***************************************************************************)
EXTENDS Integers, Sequences, FiniteSets, TLC

VARIABLES
    clock,      \* the last value time.perf_counter() returned
    timer,      \* Timer harness: the Timer object under test
    calls,      \* Timer harness: one record per start()/stop() call made on it
    shape,      \* plan harness: the shape handed to a plan factory
    made,       \* plan harness: None, or the factory called and the DFT it returned
    args,       \* PyFFTParallel: the parsed command line
    mpc,        \* PyFFTParallel.mainMethod: the statement it is at
    main_chrono,\* PyFFTParallel.mainMethod: its Timer
    plans,      \* PyFFTParallel.mainMethod: None, or the bundle planned sequentially
    pupil,      \* PyFFTParallel.mainMethod: None, or the input pupil array
    queue,      \* the pool's task queue: the chunks of param_list not yet taken
    procs,      \* the pool's worker processes, each with the call it is running
    chunkOut,   \* the pool's map result: per chunk, None or what its task sent back
    firstExc,   \* the pool's map result: None, or the first exception it was sent
    results,    \* PyFFTParallel.mainMethod: None, or the list pool.map returned
    exc,        \* PyFFTParallel.mainMethod: "none", or the exception it ended with
    ret,        \* PyFFTParallel.mainMethod: None, or the value it returned
    logged,     \* PyFFTParallel.mainMethod: the elapsed times it logged
    invoked,    \* per parameter: what the calls of the worker for it did
    script,     \* tutorial scripts: the script run and its parsed command line
    spc,        \* tutorial scripts: the statement mainMethod is at
    st,         \* tutorial scripts: None, or the Timer t of mainMethod
    sexc,       \* tutorial scripts: "none", or the exception mainMethod ended with
    sret,       \* tutorial scripts: None, or the value mainMethod returned
    effects     \* tutorial scripts: the library calls made, in order

timerVars == <<timer, calls>>
planVars == <<shape, made>>
poolVars == <<queue, procs, chunkOut, firstExc, invoked>>
mainVars == <<args, mpc, main_chrono, plans, pupil, results, exc, ret, logged>>
parVars == <<args, mpc, main_chrono, plans, pupil, queue, procs, chunkOut, firstExc,
             results, exc, ret, logged, invoked>>
scriptVars == <<script, spc, st, sexc, sret, effects>>
vars == <<clock, timer, calls, shape, made, args, mpc, main_chrono, plans, pupil,
          queue, procs, chunkOut, firstExc, results, exc, ret, logged, invoked,
          script, spc, st, sexc, sret, effects>>

(***************************************************************************)
(* Bounds of the model.                                                    *)
(***************************************************************************)
MaxClock == 3
MaxCalls == 6
MaxShape == 6
MaxBranches == 2
MaxParams == 2
MaxLambdas == 1
MaxSide == 2
MaxHdus == 5

(***************************************************************************)
(* Python values.                                                          *)
(***************************************************************************)
None == <<>>
Some(v) == <<v>>
Min(a, b) == IF a <= b THEN a ELSE b

RECURSIVE SumSeq(_)
SumSeq(s) == IF s = <<>> THEN 0 ELSE SumSeq(SubSeq(s, 1, Len(s) - 1)) + s[Len(s)]

\* time.perf_counter(): a monotonic clock; the values a read may return now.
perf_counter == clock .. Min(clock + 1, MaxClock)

(***************************************************************************)
(* Timer.py                                                                *)
(***************************************************************************)
\* The factor of Timer.stop: "Get increments in milli-seconds".
MsPerSecond == 1000

\* Timer(): the dataclass defaults.
Timer == [_start_time |-> None, incs |-> <<>>, elapsed_time |-> 0]

\* The result of a method call: the object after it, the exception raised
\* ("none" when the call returned), and the returned value.
Outcome(self, e, r) == [self |-> self, exc |-> e, ret |-> r]

\* Timer.start without its test of _start_time.
Timer_start_unguarded(self, now) ==
    Outcome([self EXCEPT !._start_time = Some(now)], "none", None)

\* Timer.start reading the clock into _start_time before its test.
Timer_start_restarts(self, now) ==
    IF self._start_time # None
    THEN Outcome([self EXCEPT !._start_time = Some(now)], "TimerError", None)
    ELSE Outcome([self EXCEPT !._start_time = Some(now)], "none", None)

\* Timer.start(self), with now the value perf_counter() returns if it is read.
Timer_start(self, now) ==
    IF self._start_time # None
    THEN Outcome(self, "TimerError", None)
    ELSE Outcome([self EXCEPT !._start_time = Some(now)], "none", None)

\* Timer.stop assigning the interval to elapsed_time instead of adding it.
Timer_stop_overwrite(self, now) ==
    IF self._start_time = None
    THEN Outcome(self, "TimerError", None)
    ELSE LET inc == (now - self._start_time[1]) * MsPerSecond
         IN  Outcome([self EXCEPT !.elapsed_time = inc,
                                  !.incs = Append(@, inc),
                                  !._start_time = None], "none", Some(inc))

\* Timer.stop without the reset of _start_time.
Timer_stop_keeps_running(self, now) ==
    IF self._start_time = None
    THEN Outcome(self, "TimerError", None)
    ELSE LET inc == (now - self._start_time[1]) * MsPerSecond
         IN  Outcome([self EXCEPT !.elapsed_time = @ + inc,
                                  !.incs = Append(@, inc)], "none", Some(inc))

\* Timer.stop returning the accumulated elapsed_time instead of the interval.
Timer_stop_returns_total(self, now) ==
    IF self._start_time = None
    THEN Outcome(self, "TimerError", None)
    ELSE LET inc == (now - self._start_time[1]) * MsPerSecond
         IN  Outcome([self EXCEPT !.elapsed_time = @ + inc,
                                  !.incs = Append(@, inc),
                                  !._start_time = None],
                     "none", Some(self.elapsed_time + inc))

\* Timer.stop(self), with now the value perf_counter() returns if it is read.
Timer_stop(self, now) ==
    IF self._start_time = None
    THEN Outcome(self, "TimerError", None)
    ELSE LET inc == (now - self._start_time[1]) * MsPerSecond
         IN  Outcome([self EXCEPT !.elapsed_time = @ + inc,
                                  !.incs = Append(@, inc),
                                  !._start_time = None], "none", Some(inc))

\* Whether the timer is running: started and not yet stopped.
Running(self) == self._start_time # None

(***************************************************************************)
(* Each specification runs one program of the package; the state of the    *)
(* programs it does not run stays as below.                                *)
(***************************************************************************)
TimerIdle == timer = Timer /\ calls = <<>>
PlanIdle == shape = <<1, 1>> /\ made = None

ParIdle ==
    /\ args = None /\ mpc = "off" /\ main_chrono = None /\ plans = None
    /\ pupil = None /\ queue = <<>> /\ procs = <<>> /\ chunkOut = <<>>
    /\ firstExc = None /\ results = None /\ exc = "none" /\ ret = None
    /\ logged = <<>> /\ invoked = <<>>

ScriptIdle ==
    /\ script = None /\ spc = "off" /\ st = None /\ sexc = "none" /\ sret = None
    /\ effects = <<>>

(***************************************************************************)
(* Timer harness: any sequence of start() and stop() calls on one Timer    *)
(* constructed with its defaults.                                          *)
(***************************************************************************)
TimerInit ==
    /\ clock = 0
    /\ TimerIdle
    /\ PlanIdle
    /\ ParIdle
    /\ ScriptIdle

Call(op, out) == [op |-> op, exc |-> out.exc, ret |-> out.ret]

CallStart ==
    /\ Len(calls) < MaxCalls
    /\ \E now \in perf_counter :
         LET out == Timer_start(timer, now)
         IN  /\ timer' = out.self
             /\ calls' = Append(calls, Call("start", out))
             /\ clock' = IF out.exc = "none" THEN now ELSE clock
             /\ UNCHANGED <<planVars, parVars, scriptVars>>

CallStop ==
    /\ Len(calls) < MaxCalls
    /\ \E now \in perf_counter :
         LET out == Timer_stop(timer, now)
         IN  /\ timer' = out.self
             /\ calls' = Append(calls, Call("stop", out))
             /\ clock' = IF out.exc = "none" THEN now ELSE clock
             /\ UNCHANGED <<planVars, parVars, scriptVars>>

TimerNext == CallStart \/ CallStop

SpecTimer == TimerInit /\ [][TimerNext]_vars

(***************************************************************************)
(* Properties of the Timer.                                                *)
(***************************************************************************)
\* The calls that returned, in order.
Succeeded == SelectSeq(calls, LAMBDA c : c.exc = "none")
NumOk(op) == Len(SelectSeq(calls, LAMBDA c : c.exc = "none" /\ c.op = op))
Rejected(op) == \E i \in DOMAIN calls : calls[i].op = op /\ calls[i].exc = "TimerError"

\* C1: after any sequence of start() and stop() calls, failing ones included,
\* on a Timer built with its defaults, elapsed_time is the sum of the intervals
\* of incs, and it is 0 while incs is empty.
C1_ElapsedIsSumOfIncs ==
    /\ timer.elapsed_time = SumSeq(timer.incs)
    /\ (timer.incs = <<>> => timer.elapsed_time = 0)

\* Two non-zero intervals recorded, with a rejected start and a rejected stop
\* among the calls.
C1_Witness ==
    /\ Len(timer.incs) = 2
    /\ timer.incs[1] > 0 /\ timer.incs[2] > 0
    /\ Rejected("start") /\ Rejected("stop")

\* Whether the timer is running when call i is made: a call before it was
\* accepted, and the last one accepted was a start.
RunningBefore(i) ==
    LET ok == {j \in 1 .. i - 1 : calls[j].exc = "none"}
    IN  /\ ok # {}
        /\ calls[CHOOSE j \in ok : \A k \in ok : k <= j].op = "start"

\* C2: a Timer call raises TimerError exactly when it is out of order: start()
\* on a running timer (started and not yet stopped), stop() on an idle one
\* (fresh, or already stopped); a call that does not raise TimerError returns.
C2_TimerErrorIffOutOfOrder ==
    \A i \in DOMAIN calls :
        /\ calls[i].exc \in {"none", "TimerError"}
        /\ (calls[i].exc = "TimerError") <=>
              \/ (calls[i].op = "start" /\ RunningBefore(i))
              \/ (calls[i].op = "stop" /\ ~RunningBefore(i))

\* A rejected start, a rejected stop (on the fresh timer and after a stop),
\* and accepted calls of both kinds.
C2_Witness ==
    /\ Len(calls) = MaxCalls
    /\ calls[1].op = "stop" /\ calls[1].exc = "TimerError"
    /\ Rejected("start")
    /\ NumOk("start") >= 1 /\ NumOk("stop") >= 1
    /\ calls[Len(calls)].op = "stop" /\ calls[Len(calls)].exc = "TimerError"

\* C3: the calls that succeed alternate start, stop, start, ... from a start;
\* successful starts minus successful stops is 1 when running and 0 when idle,
\* and incs holds one interval per successful stop.
C3_SuccessfulCallsAlternate ==
    /\ \A i \in DOMAIN Succeeded :
          Succeeded[i].op = (IF i % 2 = 1 THEN "start" ELSE "stop")
    /\ NumOk("start") - NumOk("stop") = (IF Running(timer) THEN 1 ELSE 0)
    /\ Len(timer.incs) = NumOk("stop")

\* Two full start/stop rounds with a rejected call between them.
C3_Witness ==
    /\ NumOk("start") = 2 /\ NumOk("stop") = 2
    /\ \E i \in DOMAIN calls : calls[i].exc = "TimerError"
    /\ ~Running(timer)

\* A step that makes one more call on the timer, and the record of that call.
OneMoreCall == Len(calls') = Len(calls) + 1
ThisCall == calls'[Len(calls')]

\* C15: a call that raises TimerError leaves the timer as it was: after a
\* rejected start() it still runs from its original start time, after a
\* rejected stop() it is still idle, incs and elapsed_time are unchanged; and
\* the call of the other method that follows a rejected call succeeds.
C15_RejectedCallChangesNothing ==
    [][OneMoreCall =>
         /\ ThisCall.exc = "TimerError" =>
               /\ timer'._start_time = timer._start_time
               /\ timer'.incs = timer.incs
               /\ timer'.elapsed_time = timer.elapsed_time
               /\ ThisCall.op = "start" => Running(timer')
               /\ ThisCall.op = "stop" => ~Running(timer')
         /\ (/\ calls # <<>>
             /\ calls[Len(calls)].exc = "TimerError"
             /\ ThisCall.op # calls[Len(calls)].op) => ThisCall.exc = "none"
      ]_vars

\* A rejected stop() then a start() that succeeds, then a rejected start() on
\* the running timer and a stop() that succeeds and records a non-zero
\* interval.
C15_Witness ==
    /\ Len(calls) = 4
    /\ calls[1] = [op |-> "stop", exc |-> "TimerError", ret |-> None]
    /\ calls[2] = [op |-> "start", exc |-> "none", ret |-> None]
    /\ calls[3] = [op |-> "start", exc |-> "TimerError", ret |-> None]
    /\ calls[4] = [op |-> "stop", exc |-> "none", ret |-> Some(MsPerSecond)]
    /\ timer = [_start_time |-> None, incs |-> <<MsPerSecond>>,
                elapsed_time |-> MsPerSecond]

\* C16: a start() that succeeds changes _start_time only, leaving incs and
\* elapsed_time as they were; a stop() that succeeds appends exactly one
\* interval, which is not negative, to incs, adds it to elapsed_time, returns
\* it and leaves the timer idle; elapsed_time never decreases.
C16_SuccessfulCallEffects ==
    [][/\ (OneMoreCall /\ ThisCall.exc = "none" /\ ThisCall.op = "start") =>
             /\ timer'.incs = timer.incs
             /\ timer'.elapsed_time = timer.elapsed_time
             /\ Running(timer') /\ ~Running(timer)
       /\ (OneMoreCall /\ ThisCall.exc = "none" /\ ThisCall.op = "stop") =>
             /\ ThisCall.ret # None
             /\ ThisCall.ret[1] >= 0
             /\ timer'.incs = Append(timer.incs, ThisCall.ret[1])
             /\ timer'.elapsed_time = timer.elapsed_time + ThisCall.ret[1]
             /\ ~Running(timer')
       /\ timer'.elapsed_time >= timer.elapsed_time
      ]_vars

\* A second stop() has succeeded and returned its own interval, which is not
\* the total, after a start() that left the first interval in place.
C16_Witness ==
    /\ Len(calls) = 4
    /\ \A i \in 1 .. 4 : calls[i].exc = "none"
    /\ calls[4].op = "stop" /\ calls[4].ret = Some(MsPerSecond)
    /\ timer.incs = <<MsPerSecond, MsPerSecond>>
    /\ timer.elapsed_time = 2 * MsPerSecond
    /\ ~Running(timer)

(***************************************************************************)
(* DFT.py                                                                  *)
(***************************************************************************)
\* The planner flags the scripts pass by default (--flags).
DefaultFlags == <<"FFTW_MEASURE">>

\* pyfftw.empty_aligned(shape, dtype): an array of that shape and type.
empty_aligned(shp, dtype) == [shape |-> shp, dtype |-> dtype]

\* The last axis of a real array of n points has n // 2 + 1 complex points.
HalfComplex(n) == n \div 2 + 1

\* The transform pyfftw.FFTW plans for a pair of arrays over the last axis, its
\* default: complex to complex over equal shapes, real to complex forward and
\* complex to real backward over shapes that differ in the last axis only, the
\* complex one holding n // 2 + 1 points for n real ones. Any other pair is
\* refused by the library ("invalid").
Scheme(i, o, direction) ==
    LET n == Len(i.shape)
        front(a) == SubSeq(a.shape, 1, Len(a.shape) - 1)
    IN  IF Len(o.shape) # n \/ n = 0 THEN "invalid"
        ELSE IF i.dtype = "complex128" /\ o.dtype = "complex128"
        THEN IF i.shape = o.shape THEN "c2c" ELSE "invalid"
        ELSE IF i.dtype = "float64" /\ o.dtype = "complex128"
        THEN IF /\ direction = "FFTW_FORWARD"
                /\ front(i) = front(o)
                /\ o.shape[n] = HalfComplex(i.shape[n])
             THEN "r2c" ELSE "invalid"
        ELSE IF i.dtype = "complex128" /\ o.dtype = "float64"
        THEN IF /\ direction = "FFTW_BACKWARD"
                /\ front(i) = front(o)
                /\ i.shape[n] = HalfComplex(o.shape[n])
             THEN "c2r" ELSE "invalid"
        ELSE "invalid"

\* pyfftw.FFTW(i, o, direction=..., flags=...): the plan object, which owns
\* its two buffers.
FFTW(i, o, direction, flags) ==
    [input_array |-> i, output_array |-> o, direction |-> direction,
     flags |-> flags, scheme |-> Scheme(i, o, direction)]

\* DFT(plan): the wrapper object, whose only attribute is plan.
DFT(plan) == [plan |-> plan]

\* create_complex_plan(shape, flags)
create_complex_plan(shp, flags) ==
    LET i == empty_aligned(shp, "complex128")
        o == empty_aligned(shp, "complex128")
    IN  DFT(FFTW(i, o, "FFTW_BACKWARD", flags))

\* create_real_plan with an output of shape[-1] // 2 points on the last axis.
create_real_plan_no_plus_one(shp, flags) ==
    LET i == empty_aligned(shp, "float64")
        output_shape == <<i.shape[1], i.shape[Len(i.shape)] \div 2>>
        o == empty_aligned(output_shape, "complex128")
    IN  DFT(FFTW(i, o, "FFTW_FORWARD", flags))

\* create_real_plan(shape, flags)
create_real_plan(shp, flags) ==
    LET i == empty_aligned(shp, "float64")
        output_shape == <<i.shape[1], i.shape[Len(i.shape)] \div 2 + 1>>
        o == empty_aligned(output_shape, "complex128")
    IN  DFT(FFTW(i, o, "FFTW_FORWARD", flags))

\* create_real_plan_backward handing the library the buffers in the order
\* create_real_plan does: the real one as input, the complex one as output.
create_real_plan_backward_unswapped(shp, flags) ==
    LET i == empty_aligned(shp, "float64")
        output_shape == <<i.shape[1], i.shape[Len(i.shape)] \div 2 + 1>>
        o == empty_aligned(output_shape, "complex128")
    IN  DFT(FFTW(i, o, "FFTW_BACKWARD", flags))

\* create_real_plan_backward(shape, flags)
create_real_plan_backward(shp, flags) ==
    LET i == empty_aligned(shp, "float64")
        output_shape == <<i.shape[1], i.shape[Len(i.shape)] \div 2 + 1>>
        o == empty_aligned(output_shape, "complex128")
    IN  DFT(FFTW(o, i, "FFTW_BACKWARD", flags))

(***************************************************************************)
(* Plan harness: each factory applied to every 2-D shape within the bound. *)
(***************************************************************************)
PlanInit ==
    /\ clock = 0
    /\ TimerIdle
    /\ shape \in (1 .. MaxShape) \X (1 .. MaxShape)
    /\ made = None
    /\ ParIdle
    /\ ScriptIdle

CreateComplexPlan ==
    /\ made' = Some([factory |-> "create_complex_plan",
                     dft |-> create_complex_plan(shape, DefaultFlags)])
    /\ UNCHANGED <<clock, timerVars, shape, parVars, scriptVars>>

CreateRealPlan ==
    /\ made' = Some([factory |-> "create_real_plan",
                     dft |-> create_real_plan(shape, DefaultFlags)])
    /\ UNCHANGED <<clock, timerVars, shape, parVars, scriptVars>>

CreateRealPlanBackward ==
    /\ made' = Some([factory |-> "create_real_plan_backward",
                     dft |-> create_real_plan_backward(shape, DefaultFlags)])
    /\ UNCHANGED <<clock, timerVars, shape, parVars, scriptVars>>

PlanNext == CreateComplexPlan \/ CreateRealPlan \/ CreateRealPlanBackward

SpecPlan == PlanInit /\ [][PlanNext]_vars

\* C4: for every 2-D shape (r, c) with r, c >= 1, create_real_plan builds a
\* plan whose input buffer has shape (r, c) and whose output buffer has shape
\* (r, c // 2 + 1): c is 2 * (columns - 1) or one more, the first axis is
\* unchanged, and the pair is one the library plans as real to complex.
C4_RealPlanShapes ==
    (made # None /\ made[1].factory = "create_real_plan") =>
        LET plan == made[1].dft.plan
            out == plan.output_array.shape
        IN  /\ plan.input_array.shape = shape
            /\ out = <<shape[1], shape[2] \div 2 + 1>>
            /\ shape[2] \in {2 * (out[2] - 1), 2 * (out[2] - 1) + 1}
            /\ plan.scheme = "r2c"

\* create_real_plan has built a plan for an odd and non-square shape.
C4_Witness ==
    /\ made # None /\ made[1].factory = "create_real_plan"
    /\ shape = <<2, 5>>
    /\ made[1].dft.plan.output_array.shape = <<2, 3>>

\* C13: for every 2-D shape (r, c) with r, c >= 1, create_real_plan_backward
\* builds a complex-to-real plan whose complex input buffer has shape
\* (r, c // 2 + 1) and whose real output buffer has shape (r, c), and
\* create_complex_plan builds a plan whose input and output buffers both have
\* shape (r, c).
C13_BackwardAndComplexPlanShapes ==
    /\ (made # None /\ made[1].factory = "create_real_plan_backward") =>
          LET plan == made[1].dft.plan
          IN  /\ plan.input_array = [shape |-> <<shape[1], shape[2] \div 2 + 1>>,
                                     dtype |-> "complex128"]
              /\ plan.output_array = [shape |-> shape, dtype |-> "float64"]
              /\ plan.input_array.shape[2] = plan.output_array.shape[2] \div 2 + 1
              /\ plan.scheme = "c2r"
    /\ (made # None /\ made[1].factory = "create_complex_plan") =>
          LET plan == made[1].dft.plan
          IN  /\ plan.input_array.shape = shape
              /\ plan.output_array.shape = shape
              /\ plan.scheme = "c2c"

\* create_real_plan_backward has built a plan for an odd and non-square shape.
C13_Witness ==
    /\ made # None /\ made[1].factory = "create_real_plan_backward"
    /\ shape = <<3, 5>>
    /\ made[1].dft.plan.input_array.shape = <<3, 3>>
    /\ made[1].dft.plan.output_array.shape = <<3, 5>>

(***************************************************************************)
(* PyFFTParallel.py: the plan bundle and the worker function.              *)
(***************************************************************************)
\* BranchDFTs whose constructor also starts the chrono.
BranchDFTs_started_chrono(mask_side, psf_side, flags) ==
    [pupil_to_psf |-> create_complex_plan(<<mask_side, mask_side>>, flags),
     psf_to_mtf |-> create_real_plan(<<mask_side, mask_side>>, flags),
     mtf_to_broadband |-> create_real_plan_backward(<<psf_side, psf_side>>, flags),
     chrono |-> Timer_start(Timer, 0).self]

\* BranchDFTs(mask_side, psf_side, flags): three plans and a fresh Timer.
BranchDFTs(mask_side, psf_side, flags) ==
    [pupil_to_psf |-> create_complex_plan(<<mask_side, mask_side>>, flags),
     psf_to_mtf |-> create_real_plan(<<mask_side, mask_side>>, flags),
     mtf_to_broadband |-> create_real_plan_backward(<<psf_side, psf_side>>, flags),
     chrono |-> Timer]

\* The plans one BranchDFTs(...) creates.
PlansPerBundle == 3

\* gen_rand_comp_array(sizex, sizey): a complex array of that shape.
gen_rand_comp_array(sizex, sizey) ==
    [shape |-> <<sizex, sizey>>, dtype |-> "complex128"]

\* Attribute lookup and call on an object: obj.name raises AttributeError and
\* obj(...) raises TypeError unless the object has the attribute.
HasAttr(obj, name) == name \in DOMAIN obj
IsCallable(obj) == HasAttr(obj, "__call__")

\* How a call of dummy_psf_broadband ended: the exception ("none" when it
\* returned), the shape of the broadband array returned, the transforms it ran.
Ended(e, shp, execs) == [exc |-> e, shape |-> shp, execs |-> execs]

\* dummy_psf_broadband from the statement after chrono.start() to the last
\* transform: the buffers of the plans are read as attributes of the DFT
\* objects of the bundle and the DFT objects are called; each wavelength runs
\* pupil->PSF and PSF->MTF, the sum is sliced to the input shape of
\* mtf_to_broadband, which the last transform must be handed exactly.
dummy_psf_broadband_body(bundle, lambdas) ==
    IF ~HasAttr(bundle.psf_to_mtf, "output_array")
    THEN Ended("AttributeError", None, 0)
    ELSE IF lambdas > 0 /\ ~IsCallable(bundle.pupil_to_psf)
    THEN Ended("TypeError", None, 0)
    ELSE IF ~HasAttr(bundle.mtf_to_broadband, "input_array")
    THEN Ended("AttributeError", None, 2 * lambdas)
    ELSE LET mtf_shape == bundle.psf_to_mtf.output_array.shape
             broadband_shape == bundle.mtf_to_broadband.input_array.shape
             sliced == <<Min(mtf_shape[1], broadband_shape[1]),
                         Min(mtf_shape[2], broadband_shape[2])>>
         IN  IF sliced # broadband_shape \/ ~IsCallable(bundle.mtf_to_broadband)
             THEN Ended("ValueError", None, 2 * lambdas)
             ELSE Ended("none", Some(bundle.mtf_to_broadband.output_array.shape),
                        2 * lambdas + 1)

(***************************************************************************)
(* multiprocessing.Pool as PyFFTParallel.mainMethod uses it: Pool(B) needs *)
(* B >= 1; map cuts the list into chunks of ceil(len / (4 * B)) items, one *)
(* task each; a worker process runs the items of a task in order and sends *)
(* back the list of their results, or the exception that ended the task;   *)
(* map returns once every task has reported, raising the first exception   *)
(* it was sent or returning the results in the order of the list.          *)
(***************************************************************************)
ChunksPerProcess == 4

ChunkSize(n, nproc) ==
    n \div (nproc * ChunksPerProcess)
        + (IF n % (nproc * ChunksPerProcess) # 0 THEN 1 ELSE 0)

\* The tasks of pool.map over range(n): consecutive runs of ChunkSize items.
Chunks(n, nproc) ==
    IF n = 0 THEN <<>>
    ELSE LET cs == ChunkSize(n, nproc)
             k == (n + cs - 1) \div cs
         IN  [c \in 1 .. k |->
                 [j \in 1 .. (Min(c * cs, n) - (c - 1) * cs) |-> (c - 1) * cs + j - 1]]

RECURSIVE Flatten(_)
Flatten(ss) == IF ss = <<>> THEN <<>> ELSE Head(ss) \o Flatten(Tail(ss))

IdleProc == [pc |-> "idle", chunk |-> 0, todo |-> <<>>, done |-> <<>>,
             param |-> -1, plan |-> None]

NotCalled == [calls |-> 0, plans |-> 0, execs |-> 0, out |-> None]

(***************************************************************************)
(* PyFFTParallel.mainMethod, from main_chrono = Timer() on.                *)
(***************************************************************************)
ParInit ==
    /\ clock = 0
    /\ TimerIdle
    /\ PlanIdle
    /\ args \in [branches : 0 .. MaxBranches, params : 0 .. MaxParams,
                 lambdas : 0 .. MaxLambdas, maskside : 1 .. MaxSide,
                 psfside : 1 .. MaxSide, print : BOOLEAN, flags : {DefaultFlags}]
    /\ mpc = "plan_start"
    /\ main_chrono = Timer
    /\ plans = None /\ pupil = None
    /\ queue = <<>> /\ procs = <<>> /\ chunkOut = <<>> /\ firstExc = None
    /\ results = None /\ exc = "none" /\ ret = None /\ logged = <<>>
    /\ invoked = <<>>
    /\ ScriptIdle

\* A call on main_chrono: on to the next statement, or out with its exception.
MainTimer(out, now, next) ==
    /\ main_chrono' = out.self
    /\ IF out.exc = "none"
       THEN /\ mpc' = next /\ exc' = exc /\ clock' = now
       ELSE /\ mpc' = "raised" /\ exc' = out.exc /\ clock' = clock

\* main_chrono.start() before the planning
M_PlanStart ==
    /\ mpc = "plan_start"
    /\ \E now \in perf_counter : MainTimer(Timer_start(main_chrono, now), now, "planning")
    /\ UNCHANGED <<timerVars, planVars, scriptVars, poolVars, args, plans, pupil, results, ret, logged>>

\* plans = BranchDFTs(...); wisdom = pyfftw.export_wisdom()
M_Planning ==
    /\ mpc = "planning"
    /\ plans' = Some(BranchDFTs(args.maskside, args.psfside, args.flags))
    /\ mpc' = "plan_stop"
    /\ UNCHANGED <<clock, timerVars, planVars, scriptVars, poolVars, args, main_chrono, pupil,
                   results, exc, ret, logged>>

\* main_chrono.stop() and the log of the planning time
M_PlanStop ==
    /\ mpc = "plan_stop"
    /\ \E now \in perf_counter : MainTimer(Timer_stop(main_chrono, now), now, "par_start")
    /\ logged' = IF mpc' = "raised" THEN logged
                 ELSE Append(logged, [what |-> "planning", ms |-> main_chrono'.elapsed_time])
    /\ UNCHANGED <<timerVars, planVars, scriptVars, poolVars, args, plans, pupil, results, ret>>

\* main_chrono.start() before the parallel phase
M_ParStart ==
    /\ mpc = "par_start"
    /\ \E now \in perf_counter : MainTimer(Timer_start(main_chrono, now), now, "pupil")
    /\ UNCHANGED <<timerVars, planVars, scriptVars, poolVars, args, plans, pupil, results, ret, logged>>

\* pupil = gen_rand_comp_array(...); param_list = [x for x in range(params)]
M_Pupil ==
    /\ mpc = "pupil"
    /\ pupil' = Some(gen_rand_comp_array(args.maskside, args.maskside))
    /\ invoked' = [i \in 1 .. args.params |-> NotCalled]
    /\ mpc' = "pool"
    /\ UNCHANGED <<clock, timerVars, planVars, scriptVars, queue, procs, chunkOut, firstExc,
                   args, main_chrono, plans, results, exc, ret, logged>>

\* with mp.Pool(processes=branches) as pool
M_Pool ==
    /\ mpc = "pool"
    /\ IF args.branches < 1
       THEN /\ mpc' = "raised" /\ exc' = "ValueError" /\ procs' = procs
       ELSE /\ mpc' = "map" /\ exc' = exc
            /\ procs' = [p \in 1 .. args.branches |-> IdleProc]
    /\ UNCHANGED <<clock, timerVars, planVars, scriptVars, queue, chunkOut, firstExc, invoked,
                   args, main_chrono, plans, pupil, results, ret, logged>>

\* pool.map(partial(dummy_psf_broadband, ...), param_list): the tasks are queued
M_Map ==
    /\ mpc = "map"
    /\ queue' = LET ch == Chunks(args.params, args.branches)
                IN  [c \in DOMAIN ch |-> [chunk |-> c, items |-> ch[c]]]
    /\ chunkOut' = [c \in DOMAIN queue' |-> None]
    /\ mpc' = "wait"
    /\ UNCHANGED <<clock, timerVars, planVars, scriptVars, procs, firstExc, invoked,
                   args, main_chrono, plans, pupil, results, exc, ret, logged>>

\* pool.map returns or raises, once every task has reported
M_Results ==
    /\ mpc = "wait"
    /\ \A c \in DOMAIN chunkOut : chunkOut[c] # None
    /\ IF firstExc # None
       THEN /\ mpc' = "raised" /\ exc' = firstExc[1] /\ results' = results
            /\ procs' = <<>>
       ELSE /\ mpc' = "print" /\ exc' = exc /\ procs' = procs
            /\ results' = Some(Flatten([c \in DOMAIN chunkOut |-> chunkOut[c][1].value]))
    /\ UNCHANGED <<clock, timerVars, planVars, scriptVars, queue, chunkOut, firstExc, invoked,
                   args, main_chrono, plans, pupil, ret, logged>>

\* if args.print: the per-call log; then the with block ends the pool
M_Print ==
    /\ mpc = "print"
    /\ logged' = IF args.print
                 THEN logged \o [i \in DOMAIN results[1] |->
                         [what |-> "call", param |-> i - 1,
                          incs |-> results[1][i][2].incs,
                          ms |-> results[1][i][2].elapsed_time]]
                 ELSE logged
    /\ procs' = <<>>
    /\ mpc' = "par_stop"
    /\ UNCHANGED <<clock, timerVars, planVars, scriptVars, queue, chunkOut, firstExc, invoked,
                   args, main_chrono, plans, pupil, results, exc, ret>>

\* main_chrono.stop() after the with block
M_ParStop ==
    /\ mpc = "par_stop"
    /\ \E now \in perf_counter : MainTimer(Timer_stop(main_chrono, now), now, "report")
    /\ UNCHANGED <<timerVars, planVars, scriptVars, poolVars, args, plans, pupil, results, ret, logged>>

\* the log of the total time; return Exit.Code["OK"]
M_Return ==
    /\ mpc = "report"
    /\ logged' = Append(logged, [what |-> "total", ms |-> main_chrono.elapsed_time])
    /\ ret' = Some("OK")
    /\ mpc' = "done"
    /\ UNCHANGED <<clock, timerVars, planVars, scriptVars, poolVars, args, main_chrono, plans,
                   pupil, results, exc>>

(***************************************************************************)
(* A worker process of the pool: it takes a task and calls                 *)
(* dummy_psf_broadband(pupil, mask_side, psf_side, lambdas, wisdom, flags, *)
(* param) for each item of it.                                             *)
(***************************************************************************)
\* The call process p is running ends with exception e: so does its task.
CallRaised(p, e, execs) ==
    LET me == procs[p]
    IN  /\ invoked' = [invoked EXCEPT ![me.param + 1].out = Some(Ended(e, None, execs)),
                                      ![me.param + 1].execs = @ + execs]
        /\ chunkOut' = [chunkOut EXCEPT ![me.chunk] = Some([success |-> FALSE, value |-> e])]
        /\ firstExc' = IF firstExc = None THEN Some(e) ELSE firstExc
        /\ procs' = [procs EXCEPT ![p] = IdleProc]

\* The call process p is running returns (broadband, chrono): on to the next
\* item of the task, or the task reports its list of results.
CallReturned(p, r, chrono) ==
    LET me == procs[p]
        pair == <<[shape |-> r.shape[1], dtype |-> "float64"], chrono>>
        done == Append(me.done, pair)
    IN  /\ invoked' = [invoked EXCEPT ![me.param + 1].out = Some(r),
                                      ![me.param + 1].execs = @ + r.execs]
        /\ firstExc' = firstExc
        /\ IF me.todo = <<>>
           THEN /\ chunkOut' = [chunkOut EXCEPT
                                   ![me.chunk] = Some([success |-> TRUE, value |-> done])]
                /\ procs' = [procs EXCEPT ![p] = IdleProc]
           ELSE /\ chunkOut' = chunkOut
                /\ procs' = [procs EXCEPT ![p] =
                                [me EXCEPT !.pc = "next", !.done = done, !.plan = None]]

\* The process takes the next task off the queue, or goes on with the task
\* it has, and calls the worker for the next item of it:
\* wisdom_flag = flags + ("FFTW_WISDOM_ONLY",); plan = BranchDFTs(...) and the
\* shortcuts to its attributes.
W_Call(p) ==
    /\ mpc = "wait"
    /\ procs[p].pc \in {"idle", "next"}
    /\ procs[p].pc = "idle" => queue # <<>>
    /\ LET me == procs[p]
           fresh == me.pc = "idle"
           items == IF fresh THEN Head(queue).items ELSE me.todo
           wisdom_flag == args.flags \o <<"FFTW_WISDOM_ONLY">>
       IN  /\ procs' = [procs EXCEPT ![p] =
                  [pc |-> "start",
                   chunk |-> IF fresh THEN Head(queue).chunk ELSE me.chunk,
                   param |-> Head(items), todo |-> Tail(items),
                   done |-> IF fresh THEN <<>> ELSE me.done,
                   plan |-> Some(BranchDFTs(args.maskside, args.psfside, wisdom_flag))]]
           /\ queue' = IF fresh THEN Tail(queue) ELSE queue
           /\ invoked' = [invoked EXCEPT ![Head(items) + 1].calls = @ + 1,
                                         ![Head(items) + 1].plans = @ + PlansPerBundle]
    /\ UNCHANGED <<clock, timerVars, planVars, scriptVars, mainVars, chunkOut, firstExc>>

\* chrono.start()
W_ChronoStart(p) ==
    /\ mpc = "wait"
    /\ procs[p].pc = "start"
    /\ \E now \in perf_counter :
         LET out == Timer_start(procs[p].plan[1].chrono, now)
         IN  IF out.exc = "none"
             THEN /\ procs' = [procs EXCEPT ![p].plan[1].chrono = out.self,
                                            ![p].pc = "body"]
                  /\ clock' = now
                  /\ UNCHANGED <<chunkOut, firstExc, invoked>>
             ELSE /\ CallRaised(p, out.exc, 0)
                  /\ clock' = clock
    /\ UNCHANGED <<timerVars, planVars, scriptVars, mainVars, queue>>

\* mtf_shape = psf_to_mtf.output_array.shape ... broadband = mtf_to_broadband(...);
\* chrono.stop(); return broadband, chrono
W_Body(p) ==
    /\ mpc = "wait"
    /\ procs[p].pc = "body"
    /\ LET r == dummy_psf_broadband_body(procs[p].plan[1], args.lambdas)
       IN  IF r.exc # "none"
           THEN /\ CallRaised(p, r.exc, r.execs)
                /\ clock' = clock
           ELSE \E now \in perf_counter :
                  LET out == Timer_stop(procs[p].plan[1].chrono, now)
                  IN  IF out.exc = "none"
                      THEN CallReturned(p, r, out.self) /\ clock' = now
                      ELSE CallRaised(p, out.exc, r.execs) /\ clock' = clock
    /\ UNCHANGED <<timerVars, planVars, scriptVars, mainVars, queue>>

ParNext ==
    \/ M_PlanStart \/ M_Planning \/ M_PlanStop \/ M_ParStart \/ M_Pupil
    \/ M_Pool \/ M_Map \/ M_Results \/ M_Print \/ M_ParStop \/ M_Return
    \/ \E p \in DOMAIN procs : W_Call(p)
    \/ \E p \in DOMAIN procs : W_ChronoStart(p)
    \/ \E p \in DOMAIN procs : W_Body(p)

SpecParallel == ParInit /\ [][ParNext]_vars

(***************************************************************************)
(* Properties of the worker and the parallel driver.                       *)
(***************************************************************************)
\* The parameters the worker was called for, and those whose call has ended.
Called == {i \in DOMAIN invoked : invoked[i].calls > 0}
EndedCalls == {i \in DOMAIN invoked : invoked[i].out # None}
MainEnded == mpc \in {"done", "raised"}

\* C5: every call of dummy_psf_broadband returns a (broadband, timer) pair
\* whose broadband array has shape (psf_side, psf_side), the same for any two
\* calls with the same arguments.
C5_WorkerReturnsBroadbandShape ==
    \A i \in EndedCalls :
        /\ invoked[i].out[1].exc = "none"
        /\ invoked[i].out[1].shape = Some(<<args.psfside, args.psfside>>)
        /\ \A j \in EndedCalls : invoked[j].out[1].shape = invoked[i].out[1].shape

\* The parameter combinations the driver does not support: no branch, no
\* wavelength, a PSF larger than the mask.
Unsupported ==
    args.branches < 1 \/ args.lambdas = 0 \/ args.psfside > args.maskside

\* C7: a run that succeeds returns OK, and a run given an unsupported
\* parameter combination ends by returning the usage error code, not OK and
\* not by an exception.
C7_ExitCodes ==
    /\ (mpc = "done" /\ ~Unsupported) => ret = Some("OK")
    /\ (MainEnded /\ Unsupported) => (exc = "none" /\ ret = Some("USAGE"))

\* C8: with P >= 0 parameters and B >= 1 branches the driver calls the worker
\* exactly once per parameter and collects exactly P (result, timer) pairs,
\* the pair at index i being the one of parameter i.
C8_OnePairPerParameter ==
    (MainEnded /\ args.branches >= 1) =>
        /\ exc = "none"
        /\ results # None
        /\ Len(results[1]) = args.params
        /\ \A i \in 1 .. args.params :
              /\ invoked[i].calls = 1
              /\ invoked[i].out # None
              /\ invoked[i].out[1].exc = "none"
              /\ results[1][i][1].shape = invoked[i].out[1].shape[1]

\* No Timer call of the driver or of a worker call has raised TimerError.
NoTimerError ==
    /\ exc # "TimerError"
    /\ firstExc # Some("TimerError")
    /\ \A c \in DOMAIN chunkOut :
          chunkOut[c] # None => chunkOut[c][1].value # "TimerError"
    /\ \A i \in EndedCalls : invoked[i].out[1].exc # "TimerError"

\* C9: the worker calls running in the pool share no mutable state: each has
\* the bundle and the Timer it built, which only its own start() has touched;
\* while they run the main timer stays as the driver left it (running, with
\* the planning interval) and the pupil stays as generated; no Timer is ever
\* started while running or stopped while idle.
C9_WorkersShareNoState ==
    /\ NoTimerError
    /\ \A p \in DOMAIN procs :
          /\ procs[p].pc = "start" => procs[p].plan[1].chrono = Timer
          /\ procs[p].pc = "body" =>
                /\ Running(procs[p].plan[1].chrono)
                /\ procs[p].plan[1].chrono.incs = <<>>
                /\ procs[p].plan[1].chrono.elapsed_time = 0
    /\ mpc = "wait" =>
          /\ Running(main_chrono)
          /\ Len(main_chrono.incs) = 1
          /\ main_chrono.elapsed_time = main_chrono.incs[1]
          /\ pupil = Some(gen_rand_comp_array(args.maskside, args.maskside))

\* Two worker calls in flight at once, both with their timer running, started
\* at different times.
C9_Witness ==
    /\ mpc = "wait"
    /\ Len(procs) >= 2
    /\ procs[1].pc = "body" /\ procs[2].pc = "body"
    /\ procs[1].plan[1].chrono._start_time # procs[2].plan[1].chrono._start_time
    /\ Running(main_chrono)

\* C10: a worker call with wavelength count L creates its three plans once and
\* runs 2 * L + 1 transforms: (pupil->PSF, PSF->MTF) L times, then MTF->broadband.
C10_TransformsPerCall ==
    \A i \in EndedCalls :
        /\ invoked[i].plans = invoked[i].calls * PlansPerBundle
        /\ invoked[i].execs = 2 * args.lambdas + 1

AllReturned ==
    \A i \in DOMAIN invoked : invoked[i].out # None /\ invoked[i].out[1].exc = "none"

CallLines == SelectSeq(logged, LAMBDA l : l.what = "call")

\* C12: the main timer of PyFFTParallel.mainMethod records exactly two
\* intervals, the planning phase then the parallel phase; the second is
\* stopped only after every worker call has returned and the per-call log is
\* written, and the total logged at the end is the sum of the two (for a
\* pool of B >= 1 processes).
C12_MainTimerTwoIntervals ==
    /\ mpc \in {"report", "done"} =>
          /\ AllReturned
          /\ args.print => Len(CallLines) = args.params
    /\ (MainEnded /\ args.branches >= 1) =>
          /\ ~Running(main_chrono)
          /\ Len(main_chrono.incs) = 2
          /\ logged # <<>>
          /\ logged[1] = [what |-> "planning", ms |-> main_chrono.incs[1]]
          /\ logged[Len(logged)] =
                [what |-> "total", ms |-> main_chrono.incs[1] + main_chrono.incs[2]]

\* The (broadband, chrono) pairs the worker calls have returned to the pool.
ReturnedPairs ==
    UNION {{chunkOut[c][1].value[k] : k \in DOMAIN chunkOut[c][1].value} :
             c \in {d \in DOMAIN chunkOut : chunkOut[d] # None /\ chunkOut[d][1].success}}

\* C17: the Timer a call of dummy_psf_broadband returns is idle and holds
\* exactly one interval, which is its elapsed_time, for any number of
\* wavelengths; so the per-call log of the driver (--print) lists one
\* interval for each of the P parameters.
C17_WorkerTimerHoldsOneInterval ==
    /\ \A pair \in ReturnedPairs :
          /\ ~Running(pair[2])
          /\ Len(pair[2].incs) = 1
          /\ pair[2].elapsed_time = pair[2].incs[1]
    /\ (MainEnded /\ args.print /\ args.branches >= 1) =>
          /\ Len(CallLines) = args.params
          /\ \A k \in DOMAIN CallLines :
                /\ Len(CallLines[k].incs) = 1
                /\ CallLines[k].ms = CallLines[k].incs[1]

(***************************************************************************)
(* The tutorial scripts: ScipyBackendsTutorial.py,                         *)
(* PyFFTPlaygroundTutorial.py and PyFFTWPlayground.py.                     *)
(***************************************************************************)
Scripts == {"ScipyBackendsTutorial", "PyFFTPlaygroundTutorial", "PyFFTWPlayground"}

\* The backends ScipyBackendsTutorial accepts, and the names tried on it.
SupportedBackends == {"scipy", "numpy", "pyfftw"}
BackendNames == SupportedBackends \cup {"fftw", "cupy", ""}

\* Timer(**kwargs): the constructor the dataclass generates takes the three
\* fields of the class as keywords and raises TypeError on any other.
Timer_init(kwargs) ==
    IF DOMAIN kwargs \subseteq DOMAIN Timer
    THEN Outcome([f \in DOMAIN Timer |->
                     IF f \in DOMAIN kwargs THEN kwargs[f] ELSE Timer[f]], "none", None)
    ELSE Outcome(None, "TypeError", None)

Rep(x, k) == [i \in 1 .. k |-> x]

\* The sequences of k successive values of time.perf_counter(), read from
\* clock value c on.
RECURSIVE ReadingsFrom(_, _)
ReadingsFrom(c, k) ==
    IF k = 0 THEN {<<>>}
    ELSE UNION {{<<n>> \o s : s \in ReadingsFrom(n, k - 1)} :
                  n \in c .. Min(c + 1, MaxClock)}

\* k phases of a script, each between t.start() and t.stop(), every call
\* reading the clock for itself: readings holds the 2 * k values read.
RECURSIVE Phases(_, _, _)
Phases(t, k, readings) ==
    IF k = 0 THEN t
    ELSE Phases(Timer_stop(Timer_start(t, readings[1]).self, readings[2]).self,
                k - 1, Tail(Tail(readings)))

\* The timed phases of a script: PyFFTWPlayground has no inverse transforms.
PhaseCount(name) == IF name = "PyFFTWPlayground" THEN 3 ELSE 4

\* The clock reads mainMethod makes after its Timer is built: none when
\* ScipyBackendsTutorial refuses the backend, else two per phase.
ClockReads(name, a) ==
    IF name = "ScipyBackendsTutorial" /\ a.backend \notin SupportedBackends
    THEN 0 ELSE 2 * PhaseCount(name)

Ran(e, r, eff, t) == [exc |-> e, ret |-> r, effects |-> eff, t |-> t]

\* mainMethod of a script after its Timer t is built, on a file of n HDUs:
\* ScipyBackendsTutorial installs the backend asked for or raises ValueError,
\* then each script opens the file, transforms every HDU, convolves every HDU
\* but the first with the first, and (but PyFFTWPlayground) transforms every
\* HDU back; PyFFTWPlayground transforms and convolves under
\* set_backend(pyfftw.interfaces.scipy_fft) and enables the pyfftw cache
\* before its transforms; PyFFTPlaygroundTutorial ends on Exit.Code, a name
\* it never imports.
AfterTimer(name, a, t, readings) ==
    LET n == a.hdus
        forward == <<"fits.open">> \o Rep("fft2", n) \o Rep("fftconvolve", n - 1)
        install == IF a.backend = "scipy" THEN <<>>
                   ELSE IF a.backend = "numpy"
                   THEN <<"set_global_backend(NumPyBackend)">>
                   ELSE <<"pyfftw.interfaces.cache.enable",
                          "set_global_backend(pyfftw.interfaces.scipy_fft)">>
        timed == Phases(t, PhaseCount(name), readings)
    IN  IF name = "ScipyBackendsTutorial"
        THEN IF a.backend \notin SupportedBackends
             THEN Ran("ValueError", None, <<>>, t)
             ELSE Ran("none", Some(0), install \o forward \o Rep("ifft2", n), timed)
        ELSE IF name = "PyFFTPlaygroundTutorial"
        THEN Ran("NameError", None, forward \o Rep("ifft2", n), timed)
        ELSE Ran("none", Some(0),
                 <<"fits.open", "set_backend(pyfftw.interfaces.scipy_fft)",
                   "pyfftw.interfaces.cache.enable">> \o Rep("fft2", n)
                    \o <<"set_backend(pyfftw.interfaces.scipy_fft)">>
                    \o Rep("fftconvolve", n - 1),
                 timed)

ScriptInit ==
    /\ clock = 0
    /\ TimerIdle
    /\ PlanIdle
    /\ ParIdle
    /\ \E name \in Scripts, b \in BackendNames, n \in 1 .. MaxHdus :
          /\ name # "ScipyBackendsTutorial" => b = "scipy"
          /\ script = [name |-> name, args |-> [backend |-> b, hdus |-> n]]
    /\ spc = "enter"
    /\ st = None /\ sexc = "none" /\ sret = None /\ effects = <<>>

\* the logger is set up and "Entering ... mainMethod()" is logged
S_Enter ==
    /\ spc = "enter"
    /\ spc' = "timer"
    /\ UNCHANGED <<clock, timerVars, planVars, parVars, script, st, sexc, sret, effects>>

\* t = Timer(logger=logger.info), and the rest of mainMethod if it is built
S_Timer ==
    /\ spc = "timer"
    /\ LET out == Timer_init([logger |-> "logger.info"])
       IN  IF out.exc # "none"
           THEN /\ spc' = "raised" /\ sexc' = out.exc
                /\ UNCHANGED <<clock, st, sret, effects>>
           ELSE \E readings \in ReadingsFrom(clock, ClockReads(script.name, script.args)) :
                  LET r == AfterTimer(script.name, script.args, out.self, readings)
                  IN  /\ spc' = IF r.exc = "none" THEN "done" ELSE "raised"
                      /\ sexc' = r.exc /\ sret' = r.ret /\ effects' = r.effects
                      /\ st' = Some(r.t)
                      /\ clock' = IF readings = <<>> THEN clock
                                  ELSE readings[Len(readings)]
    /\ UNCHANGED <<timerVars, planVars, parVars, script>>

ScriptNext == S_Enter \/ S_Timer

SpecScripts == ScriptInit /\ [][ScriptNext]_vars

\* C6: given a backend name other than scipy, numpy or pyfftw,
\* ScipyBackendsTutorial.mainMethod raises the ValueError that names the
\* supported backends and computes nothing: no file opened, no transform or
\* convolution run, no backend installed, no timer interval recorded.
C6_UnsupportedBackendRaisesValueError ==
    (/\ script.name = "ScipyBackendsTutorial"
     /\ script.args.backend \notin SupportedBackends
     /\ spc \in {"done", "raised"}) =>
        /\ sexc = "ValueError"
        /\ effects = <<>>
        /\ st # None => st[1].incs = <<>>

ScriptEnded == spc \in {"done", "raised"}

\* the effects of a run that are not backend installation
Computation(eff) ==
    SelectSeq(eff, LAMBDA x : x \in {"fits.open", "fft2", "fftconvolve", "ifft2"})

\* C11: on a file of n >= 1 HDUs and a supported backend, each tutorial script
\* builds its timer, opens the file, transforms every HDU, convolves, (but
\* PyFFTWPlayground) transforms back, in that order, with one timer interval
\* per phase, and returns the OK code without raising.
C11_ScriptsRunPhasesAndReturnOK ==
    (ScriptEnded /\ script.args.backend \in SupportedBackends) =>
        LET n == script.args.hdus
            inverse == IF script.name = "PyFFTWPlayground" THEN <<>>
                       ELSE Rep("ifft2", n)
            phases == IF script.name = "PyFFTWPlayground" THEN 3 ELSE 4
        IN  /\ sexc = "none"
            /\ sret = Some(0)
            /\ st # None
            /\ Len(st[1].incs) = phases
            /\ ~Running(st[1])
            /\ Computation(effects) =
                  <<"fits.open">> \o Rep("fft2", n) \o Rep("fftconvolve", n - 1)
                     \o inverse

Installs(eff) ==
    SelectSeq(eff, LAMBDA x : x \in {"set_global_backend(NumPyBackend)",
                                      "set_global_backend(pyfftw.interfaces.scipy_fft)"})

\* C14: ScipyBackendsTutorial.mainMethod applies the backend choice before
\* any file is opened or transform run: for scipy no global backend is
\* installed, for numpy and for pyfftw the backend of that name is installed
\* exactly once, and the same phases then run for the three names.
C14_BackendInstalledBeforePhases ==
    (/\ script.name = "ScipyBackendsTutorial"
     /\ script.args.backend \in SupportedBackends
     /\ ScriptEnded) =>
        LET n == script.args.hdus
            b == script.args.backend
            wanted == IF b = "numpy"
                      THEN <<"set_global_backend(NumPyBackend)">>
                      ELSE IF b = "pyfftw"
                      THEN <<"set_global_backend(pyfftw.interfaces.scipy_fft)">>
                      ELSE <<>>
            k == Len(effects) - Len(Computation(effects))
        IN  /\ Installs(effects) = wanted
            /\ Computation(SubSeq(effects, 1, k)) = <<>>
            /\ Computation(effects) =
                  <<"fits.open">> \o Rep("fft2", n) \o Rep("fftconvolve", n - 1)
                     \o Rep("ifft2", n)

====
